---- MODULE Spec2Model ----
(***************************************************************************)
(* Student attendance API: the attendance ledger (check-in, teacher mark,  *)
(* listings, statistics) of app/routers/attendance.py and the bearer-token *)
(* guards of app/utils/jwt.py.                                             *)
(*                                                                         *)
(* Conventions.  A Python Optional value is a set with at most one         *)
(* element ({} is None).  Time is counted in minutes since the first       *)
(* midnight; the server clock and the database clock are one clock.  The   *)
(* attendance table is a sequence in insertion order; the primary key of a *)
(* row is its position (rows are never deleted).  A handler's outcome is   *)
(* left in resp: the operation, the HTTP status and the returned value.    *)
(* Requests are served concurrently, each in a database session of its     *)
(* own: inflight is the bag of check-in requests that have made their      *)
(* reads and have not yet inserted.                                        *)
(***************************************************************************)
EXTENDS Integers, Sequences, FiniteSets, Bags

VARIABLES users, ledger, now, resp, inflight, tokens

vars == <<users, ledger, now, resp, inflight, tokens>>

----------------------------------------------------------------------------
(* Bounds of the model.                                                    *)

MaxRecords == 2
MaxDay == 1
NProcs == 2
MaxStatRecords == 3
MaxTokens == 1
MaxAuthTicks == 3

(* Program constants.                                                      *)

MinutesPerDay == 1440
ACCESS_TOKEN_EXPIRE_MINUTES == 30

HTTP_200_OK == 200
HTTP_201_CREATED == 201
HTTP_400_BAD_REQUEST == 400
HTTP_401_UNAUTHORIZED == 401
HTTP_403_FORBIDDEN == 403
HTTP_404_NOT_FOUND == 404

----------------------------------------------------------------------------
(* Data.                                                                   *)

AttendanceStatus == {"present", "absent", "late", "excused"}

None == {}

(* bool(x) of an Optional[str]: None and the empty string are falsy.       *)
TruthyStr(opt) == opt # {} /\ \A s \in opt : s # ""

(* bool(x) of an Optional[date]: every date object is truthy.              *)
TruthyDate(opt) == opt # {}

(* The rows the identity store may hold.  The users router is not part of  *)
(* the sources; a behaviour starts from a store holding some of these.     *)
UserPool ==
    [i \in 1..4 |->
        CASE i = 1 -> [id |-> 1, username |-> "alice", full_name |-> {"Alice A"},
                       is_teacher |-> FALSE, is_active |-> TRUE]
          [] i = 2 -> [id |-> 2, username |-> "bob", full_name |-> {"Bob B"},
                       is_teacher |-> TRUE, is_active |-> TRUE]
          [] i = 3 -> [id |-> 3, username |-> "carol", full_name |-> {},
                       is_teacher |-> TRUE, is_active |-> FALSE]
          [] i = 4 -> [id |-> 4, username |-> "dave", full_name |-> {"Dave D"},
                       is_teacher |-> FALSE, is_active |-> FALSE]]

UserTable(ids) == [i \in ids |-> UserPool[i]]

(* db.query(User).filter(User.id == uid).first(): the row, or None.        *)
QueryUser(uid) == IF uid \in DOMAIN users THEN {users[uid]} ELSE {}

(* func.date(t): the calendar day of a timestamp.                          *)
DateOf(t) == t \div MinutesPerDay

(* datetime.now().date()                                                   *)
Today == DateOf(now)

(* A handler's outcome.                                                    *)
Raise(op, code, detail) == [op |-> op, status |-> code, value |-> [detail |-> detail]]
Return(op, code, v) == [op |-> op, status |-> code, value |-> v]

NoResp == [op |-> "start", status |-> 0, value |-> [detail |-> ""]]

(* Attendance(...) followed by add, commit, refresh: the row as stored,    *)
(* with the server-assigned key and check-in time.                         *)
NewRow(uid, cls, st, notes, marker) ==
    [id |-> Len(ledger) + 1, user_id |-> uid, class_name |-> cls, status |-> st,
     check_in_time |-> now, check_out_time |-> None, notes |-> notes,
     marked_by |-> marker]

----------------------------------------------------------------------------
(* POST /attendance/check-in                                               *)

(* The duplicate query of check_in: rows of this user and class whose      *)
(* check-in day is `day`.                                                  *)
ExistingToday(uid, cls, day) ==
    SelectSeq(ledger, LAMBDA r : /\ r.user_id = uid
                                 /\ r.class_name = cls
                                 /\ DateOf(r.check_in_time) = day)

(* check_in is two steps of the server: its reads, then its insert and     *)
(* commit.  No lock is taken and the table has no unique constraint, and   *)
(* steps of other requests may come in between.                            *)

(* The body of a check-in request, kept by the handler between its steps.  *)
CheckInRequest(uid, cls, st, notes) ==
    [user_id |-> uid, class_name |-> cls, status |-> st, notes |-> notes]

(* Lines 28-47 of check_in: the user lookup and the duplicate query, and   *)
(* the errors they raise.                                                  *)
CheckInRead(uid, cls, st, notes) ==
    /\ UNCHANGED <<users, ledger, now, tokens>>
    /\ IF QueryUser(uid) = {}
       THEN /\ resp' = Raise("check_in", HTTP_404_NOT_FOUND, "User not found")
            /\ UNCHANGED inflight
       ELSE IF ExistingToday(uid, cls, Today) # <<>>
       THEN /\ resp' = Raise("check_in", HTTP_400_BAD_REQUEST,
                             "Already checked in for this class today")
            /\ UNCHANGED inflight
       ELSE /\ inflight' = inflight (+) SetToBag({CheckInRequest(uid, cls, st, notes)})
            /\ UNCHANGED resp

(* Lines 50-61 of check_in: the insert, the commit and the response.  The  *)
(* row gets its key and its check-in time when it is inserted.             *)
CheckInCommit(req) ==
    /\ BagIn(req, inflight)
    /\ ledger' = Append(ledger, NewRow(req.user_id, req.class_name, req.status,
                                       req.notes, None))
    /\ resp' = Return("check_in", HTTP_201_CREATED,
                      NewRow(req.user_id, req.class_name, req.status, req.notes, None))
    /\ inflight' = inflight (-) SetToBag({req})
    /\ UNCHANGED <<users, now, tokens>>

----------------------------------------------------------------------------
(* POST /attendance/mark                                                   *)

(* The teacher check reduced to the existence of the user.                 *)
NotATeacher_ExistsOnly(teacher) == teacher = {}

(* not teacher or not teacher.is_teacher                                   *)
NotATeacher(teacher) == teacher = {} \/ \E t \in teacher : ~t.is_teacher

(* mark_attendance reads only the user table, which no request changes,    *)
(* before it inserts: it is one step, taken at its commit.                 *)

(* mark_attendance with the duplicate guard of check_in added.             *)
Mark_RejectsDuplicates(teacher_id, uid, cls, st, notes) ==
    /\ UNCHANGED <<users, now, inflight, tokens>>
    /\ IF NotATeacher(QueryUser(teacher_id))
       THEN /\ resp' = Raise("mark", HTTP_403_FORBIDDEN,
                             "Only teachers can mark attendance")
            /\ UNCHANGED ledger
       ELSE IF QueryUser(uid) = {}
       THEN /\ resp' = Raise("mark", HTTP_404_NOT_FOUND, "Student not found")
            /\ UNCHANGED ledger
       ELSE IF ExistingToday(uid, cls, Today) # <<>>
       THEN /\ resp' = Raise("mark", HTTP_400_BAD_REQUEST,
                             "Already checked in for this class today")
            /\ UNCHANGED ledger
       ELSE /\ ledger' = Append(ledger, NewRow(uid, cls, st, notes, {teacher_id}))
            /\ resp' = Return("mark", HTTP_201_CREATED,
                              NewRow(uid, cls, st, notes, {teacher_id}))

Mark(teacher_id, uid, cls, st, notes) ==
    /\ UNCHANGED <<users, now, inflight, tokens>>
    /\ IF NotATeacher(QueryUser(teacher_id))
       THEN /\ resp' = Raise("mark", HTTP_403_FORBIDDEN,
                             "Only teachers can mark attendance")
            /\ UNCHANGED ledger
       ELSE IF QueryUser(uid) = {}
       THEN /\ resp' = Raise("mark", HTTP_404_NOT_FOUND, "Student not found")
            /\ UNCHANGED ledger
       ELSE /\ ledger' = Append(ledger, NewRow(uid, cls, st, notes, {teacher_id}))
            /\ resp' = Return("mark", HTTP_201_CREATED,
                              NewRow(uid, cls, st, notes, {teacher_id}))

----------------------------------------------------------------------------
(* GET /attendance/                                                        *)

Min(a, b) == IF a < b THEN a ELSE b

(* query.offset(skip).limit(limit).all(), for skip, limit >= 0             *)
OffsetLimit(rows, skip, limit) == SubSeq(rows, skip + 1, Min(Len(rows), skip + limit))

(* The class filter, applied when class_name is truthy.                    *)
FilterClass(rows, class_name) ==
    IF TruthyStr(class_name)
    THEN SelectSeq(rows, LAMBDA r : r.class_name \in class_name)
    ELSE rows

(* The date filter comparing the timestamp itself with the date.           *)
FilterDate_ExactTime(rows, date_filter) ==
    IF TruthyDate(date_filter)
    THEN SelectSeq(rows, LAMBDA r : r.check_in_time \in {d * MinutesPerDay : d \in date_filter})
    ELSE rows

(* The date filter, applied when date_filter is truthy.                    *)
FilterDate(rows, date_filter) ==
    IF TruthyDate(date_filter)
    THEN SelectSeq(rows, LAMBDA r : DateOf(r.check_in_time) \in date_filter)
    ELSE rows

GetAllAttendance(skip, limit, class_name, date_filter) ==
    /\ resp' = Return("list", HTTP_200_OK,
                      [items |-> OffsetLimit(FilterDate(FilterClass(ledger, class_name),
                                                        date_filter), skip, limit)])
    /\ UNCHANGED <<users, ledger, now, inflight, tokens>>

----------------------------------------------------------------------------
(* GET /attendance/class/{class_name}/today                                *)

(* The rows of the join of Attendance and User, filtered by class and day. *)
JoinedToday(class_name) ==
    SelectSeq(ledger, LAMBDA r : /\ r.user_id \in DOMAIN users
                                 /\ r.class_name = class_name
                                 /\ DateOf(r.check_in_time) = Today)

(* The dict appended to result for one joined row.                         *)
WithUser(att) ==
    [id |-> att.id, user_id |-> att.user_id, class_name |-> att.class_name,
     status |-> att.status, check_in_time |-> att.check_in_time,
     check_out_time |-> att.check_out_time, notes |-> att.notes,
     marked_by |-> att.marked_by, username |-> users[att.user_id].username,
     full_name |-> users[att.user_id].full_name]

(* The list `result` the handler builds.                                   *)
ClassTodayResult(class_name) ==
    [i \in 1..Len(JoinedToday(class_name)) |-> WithUser(JoinedToday(class_name)[i])]

(* A function body that ends without a return statement returns None; the  *)
(* handler sets no status.                                                 *)
ReturnNone(op) == [op |-> op, status |-> 0, value |-> [none |-> TRUE]]

(* The handler builds `result` and falls off its end: the only             *)
(* `return result` of the file stands after the return of                  *)
(* get_class_attendance_stats (line 251).                                  *)
GetClassAttendanceToday(class_name) ==
    /\ Len(ClassTodayResult(class_name)) >= 0
    /\ resp' = ReturnNone("class_today")
    /\ UNCHANGED <<users, ledger, now, inflight, tokens>>

----------------------------------------------------------------------------
(* GET /attendance/stats/user/{user_id} and /attendance/stats/class/{c}    *)

(* len([r for r in all_records if r.status == st])                         *)
CountStatus(rows, st) == Len(SelectSeq(rows, LAMBDA r : r.status = st))

(* Python floats are IEEE 754 doubles: a significand of 53 bits, every     *)
(* operation rounded to the nearest double, a tie to the even one.  A      *)
(* significand is held as its base-8192 digits, least significant first,   *)
(* and a positive double is m * 2^(-s).                                    *)

MantissaBits == 53
LimbBits == 13

RECURSIVE Pow2(_)
Pow2(k) == IF k = 0 THEN 1 ELSE 2 * Pow2(k - 1)

Base == Pow2(LimbBits)

Max(S) == CHOOSE x \in S : \A y \in S : y <= x

(* Bit j (from 0) of the number with digits d.                             *)
Bit(d, j) ==
    IF (j \div LimbBits) + 1 \in DOMAIN d
    THEN (d[(j \div LimbBits) + 1] \div Pow2(j % LimbBits)) % 2
    ELSE 0

(* The number of bits of the number with digits d.                         *)
BitLen(d) ==
    LET ones == {j \in 0..(LimbBits * Len(d) - 1) : Bit(d, j) = 1}
    IN  IF ones = {} THEN 0 ELSE Max(ones) + 1

(* The number with digits d, for a number that fits a machine integer.     *)
RECURSIVE IntOf(_)
IntOf(d) == IF d = <<>> THEN 0 ELSE Head(d) + Base * IntOf(Tail(d))

RECURSIVE Increment(_)
Increment(d) ==
    IF d = <<>> THEN <<1>>
    ELSE IF Head(d) + 1 < Base THEN <<Head(d) + 1>> \o Tail(d)
    ELSE <<0>> \o Increment(Tail(d))

(* The digits of d * m + carry, for m and carry below 2^17.                *)
RECURSIVE MulSmall(_, _, _)
MulSmall(d, m, carry) ==
    IF d = <<>> THEN (IF carry = 0 THEN <<>> ELSE <<carry % Base>>
                                                  \o MulSmall(<<>>, m, carry \div Base))
    ELSE <<(Head(d) * m + carry) % Base>>
             \o MulSmall(Tail(d), m, (Head(d) * m + carry) \div Base)

(* floor(d / 2^k)                                                          *)
ShiftRight(d, k) ==
    [i \in 1..Len(d) |->
        LET lo == IF i + (k \div LimbBits) \in DOMAIN d
                  THEN d[i + (k \div LimbBits)] ELSE 0
            hi == IF i + (k \div LimbBits) + 1 \in DOMAIN d
                  THEN d[i + (k \div LimbBits) + 1] ELSE 0
        IN  (lo \div Pow2(k % LimbBits))
                + (hi % Pow2(k % LimbBits)) * Pow2(LimbBits - (k % LimbBits))]

(* d / 2^k rounded to the nearest integer, a tie to the even one.          *)
RoundShift(d, k) ==
    IF /\ k >= 1
       /\ Bit(d, k - 1) = 1
       /\ (Bit(d, k) = 1 \/ \E j \in 0..(k - 2) : Bit(d, j) = 1)
    THEN Increment(ShiftRight(d, k))
    ELSE ShiftRight(d, k)

(* The double nearest to m * 2^(-s).                                       *)
RoundToDouble(m, s) ==
    IF BitLen(m) <= MantissaBits THEN [m |-> m, s |-> s]
    ELSE LET k == BitLen(m) - MantissaBits
             r == RoundShift(m, k)
         IN  IF BitLen(r) > MantissaBits
             THEN [m |-> ShiftRight(r, 1), s |-> s - k - 1]
             ELSE [m |-> r, s |-> s - k]

(* The least e with num * 2^e >= den.                                      *)
RECURSIVE BinaryExponent(_, _)
BinaryExponent(num, den) == IF num >= den THEN 0 ELSE 1 + BinaryExponent(2 * num, den)

(* The next k base-8192 digits of r / den after the point, for r < den,    *)
(* least significant first, and the remainder left.                        *)
RECURSIVE QuotientDigits(_, _, _)
QuotientDigits(r, den, k) ==
    IF k = 0 THEN [digits |-> <<>>, rem |-> r]
    ELSE LET rest == QuotientDigits((r * Base) % den, den, k - 1)
         IN  [digits |-> Append(rest.digits, (r * Base) \div den), rem |-> rest.rem]

(* num / den of two ints, 0 < num <= den < 2^18: the double nearest to the *)
(* quotient.                                                               *)
FloatDiv(num, den) ==
    LET e == BinaryExponent(num, den)
        q == QuotientDigits(num * Pow2(e) - den, den, (MantissaBits - 1) \div LimbBits)
        m == Append(q.digits, 1)
        up == 2 * q.rem > den \/ (2 * q.rem = den /\ Bit(m, 0) = 1)
    IN  RoundToDouble(IF up THEN Increment(m) ELSE m, e + MantissaBits - 1)

(* x * k of a double and a small int.                                      *)
FloatMul(x, k) == RoundToDouble(MulSmall(x.m, k, 0), x.s)

(* round(x, 2) of a double x, 0 < x < 2^23, in hundredths: the hundredth   *)
(* nearest to the value of x, a tie to the even one.                       *)
Round2(x) == IntOf(RoundShift(MulSmall(x.m, 100, 0), x.s))

(* round(num / den * 100, 2), in hundredths.                               *)
RoundHundredths(num, den) ==
    IF num = 0 THEN 0 ELSE Round2(FloatMul(FloatDiv(num, den), 100))

(* RoundHundredths over the totals of a small ledger, evaluated once.      *)
SmallRates ==
    [den \in 1..(MaxStatRecords + 1) |-> [num \in 0..den |-> RoundHundredths(num, den)]]

(* round(num / den * 100, 2), looked up where it has been evaluated.       *)
RoundedRate(num, den) ==
    IF den \in DOMAIN SmallRates /\ num \in DOMAIN SmallRates[den]
    THEN SmallRates[den][num]
    ELSE RoundHundredths(num, den)

(* The rate with late rows left out.                                       *)
AttendanceRate_PresentOnly(present, late, total) ==
    IF total > 0 THEN RoundedRate(present, total) ELSE 0

(* round((present + late) / total * 100, 2) if total > 0 else 0, in        *)
(* hundredths of a percent.                                                *)
AttendanceRate(present, late, total) ==
    IF total > 0 THEN RoundedRate(present + late, total) ELSE 0

Digit == <<"0", "1", "2", "3", "4", "5", "6", "7", "8", "9">>

RECURSIVE IntStr(_)
(* str(n) of a natural number.                                             *)
IntStr(n) == IF n < 10 THEN Digit[n + 1] ELSE IntStr(n \div 10) \o Digit[(n % 10) + 1]

(* str(x) of a float with at most two decimals, given in hundredths: the   *)
(* shortest form, with at least one decimal ("80.0", "66.67", "12.5").     *)
FloatStr(h) ==
    IntStr(h \div 100) \o "." \o
        (IF h % 10 = 0 THEN Digit[((h % 100) \div 10) + 1]
         ELSE Digit[((h % 100) \div 10) + 1] \o Digit[(h % 10) + 1])

(* f"{attendance_rate}%"                                                   *)
PercentStr(h) == FloatStr(h) \o "%"

UserRows(uid) == SelectSeq(ledger, LAMBDA r : r.user_id = uid)

GetUserAttendanceStats(uid) ==
    /\ UNCHANGED <<users, ledger, now, inflight, tokens>>
    /\ IF QueryUser(uid) = {}
       THEN resp' = Raise("stats_user", HTTP_404_NOT_FOUND, "User not found")
       ELSE IF UserRows(uid) = <<>>
       THEN resp' = Return("stats_user", HTTP_200_OK,
                [user_id |-> uid, username |-> users[uid].username,
                 total_records |-> 0, present |-> 0, absent |-> 0, late |-> 0,
                 excused |-> 0, attendance_rate |-> 0])
       ELSE resp' = Return("stats_user", HTTP_200_OK,
                [user_id |-> uid, username |-> users[uid].username,
                 full_name |-> users[uid].full_name,
                 total_records |-> Len(UserRows(uid)),
                 present |-> CountStatus(UserRows(uid), "present"),
                 absent |-> CountStatus(UserRows(uid), "absent"),
                 late |-> CountStatus(UserRows(uid), "late"),
                 excused |-> CountStatus(UserRows(uid), "excused"),
                 attendance_rate |->
                     PercentStr(AttendanceRate(CountStatus(UserRows(uid), "present"),
                                               CountStatus(UserRows(uid), "late"),
                                               Len(UserRows(uid))))])

ClassRows(class_name) == SelectSeq(ledger, LAMBDA r : r.class_name = class_name)

(* The number of rows in place of the number of distinct students.         *)
UniqueStudents_CountsRows(rows) == Len(rows)

(* len(set([r.user_id for r in all_records]))                              *)
UniqueStudents(rows) == Cardinality({rows[i].user_id : i \in 1..Len(rows)})

GetClassAttendanceStats(class_name) ==
    /\ UNCHANGED <<users, ledger, now, inflight, tokens>>
    /\ IF ClassRows(class_name) = <<>>
       THEN resp' = Return("stats_class", HTTP_200_OK,
                [class_name |-> class_name, total_records |-> 0,
                 unique_students |-> 0, present |-> 0, absent |-> 0, late |-> 0,
                 excused |-> 0])
       ELSE resp' = Return("stats_class", HTTP_200_OK,
                [class_name |-> class_name,
                 total_records |-> Len(ClassRows(class_name)),
                 unique_students |-> UniqueStudents(ClassRows(class_name)),
                 present |-> CountStatus(ClassRows(class_name), "present"),
                 absent |-> CountStatus(ClassRows(class_name), "absent"),
                 late |-> CountStatus(ClassRows(class_name), "late"),
                 excused |-> CountStatus(ClassRows(class_name), "excused")])

----------------------------------------------------------------------------
(* The clock.                                                              *)

Tick(d) ==
    /\ now + d <= (MaxDay + 1) * MinutesPerDay - 1
    /\ now' = now + d
    /\ UNCHANGED <<users, ledger, resp, inflight, tokens>>

----------------------------------------------------------------------------
(* The ledger: check-ins and teacher marks.                                *)

LedgerTeacherIds == 1..4
LedgerStudentIds == {1, 4}
LedgerClasses == {"Math101", "Physics201"}
MarkClasses == {"Math101"}
MarkStatuses == {"absent", "late"}

Init ==
    /\ users = UserTable({1, 2, 3})
    /\ ledger = <<>>
    /\ now = 0
    /\ resp = NoResp
    /\ inflight = EmptyBag
    /\ tokens = {}

DoCheckInRead ==
    \E u \in LedgerStudentIds, c \in LedgerClasses :
        CheckInRead(u, c, "present", None) /\ BagCardinality(inflight') <= NProcs

DoCheckInCommit ==
    \E req \in BagToSet(inflight) : CheckInCommit(req) /\ Len(ledger') <= MaxRecords

DoMark ==
    \E t \in LedgerTeacherIds, u \in LedgerStudentIds, c \in MarkClasses,
       s \in MarkStatuses :
        Mark(t, u, c, s, {"by teacher"}) /\ Len(ledger') <= MaxRecords

NextDay == Tick(MinutesPerDay)

Next == DoCheckInRead \/ DoCheckInCommit \/ DoMark \/ NextDay

Spec == Init /\ [][Next]_vars

----------------------------------------------------------------------------
(* The listings.                                                           *)

DEFAULT_LIMIT == 100

ListClasses == {"Math101", "Physics201"}
ListClassFilters == {None, {""}, {"Math101"}}
ListDateFilters == {None, {0}}
ListSkips == {0, 1}
ListLimits == {1, DEFAULT_LIMIT}

InitList ==
    /\ users = UserTable({1, 2})
    /\ ledger = <<>>
    /\ now = 0
    /\ resp = NoResp
    /\ inflight = EmptyBag
    /\ tokens = {}

ListCheckInInputs == {<<1, "Math101">>, <<2, "Physics201">>}

ListCheckInRead ==
    \E inp \in ListCheckInInputs :
        CheckInRead(inp[1], inp[2], "present", None) /\ BagCardinality(inflight') <= NProcs

ListCheckInCommit ==
    \E req \in BagToSet(inflight) : CheckInCommit(req) /\ Len(ledger') <= MaxRecords

HalfDay == Tick(MinutesPerDay \div 2)

DoGetAll ==
    \E skip \in ListSkips, limit \in ListLimits, c \in ListClassFilters,
       d \in ListDateFilters : GetAllAttendance(skip, limit, c, d)

DoGetClassToday == \E c \in ListClasses : GetClassAttendanceToday(c)

NextList == ListCheckInRead \/ ListCheckInCommit \/ HalfDay \/ DoGetAll \/ DoGetClassToday

SpecList == InitList /\ [][NextList]_vars

----------------------------------------------------------------------------
(* The statistics.                                                         *)

StatsUserIds == 1..3
StatsClasses == {"Math101", "Physics201"}
StatsCheckInInputs == {<<1, "Physics201">>, <<2, "Math101">>}

StatsCheckInRead ==
    \E inp \in StatsCheckInInputs :
        CheckInRead(inp[1], inp[2], "present", None) /\ BagCardinality(inflight') <= NProcs

StatsCheckInCommit ==
    \E req \in BagToSet(inflight) : CheckInCommit(req) /\ Len(ledger') <= MaxStatRecords

StatsMark ==
    \E s \in AttendanceStatus \ {"present"} :
        Mark(2, 1, "Math101", s, None) /\ Len(ledger') <= MaxStatRecords

DoUserStats == \E u \in StatsUserIds : GetUserAttendanceStats(u)

DoClassStats == \E c \in StatsClasses : GetClassAttendanceStats(c)

NextStats == StatsCheckInRead \/ StatsCheckInCommit \/ StatsMark \/ NextDay \/ DoUserStats \/ DoClassStats

SpecStats == InitList /\ [][NextStats]_vars

----------------------------------------------------------------------------
(* app/utils/jwt.py: bearer tokens and the guards built on them.           *)

SECRET_KEY == "SECRET_KEY"

(* bool(x) of an Optional[timedelta]: None and timedelta(0) are falsy.     *)
TruthyDelta(opt) == opt # {} /\ \A d \in opt : d # 0

(* jwt.encode(claims, key): the claims, bound to the key that signed them. *)
JwtEncode(claims, key) == [kind |-> "jwt", claims |-> claims, key |-> key]

(* A bearer string that is not a JWT.                                      *)
Malformed == [kind |-> "malformed"]

(* create_access_token(data, expires_delta), data being a dict that holds  *)
(* "sub" or not; the expiry is in minutes of the one clock.                *)
CreateAccessToken(data, expires_delta) ==
    LET expire == IF TruthyDelta(expires_delta)
                  THEN now + (CHOOSE d \in expires_delta : TRUE)
                  ELSE now + ACCESS_TOKEN_EXPIRE_MINUTES
    IN  JwtEncode([sub |-> data.sub, exp |-> {expire}], SECRET_KEY)

(* jwt.decode(token, SECRET_KEY): the claims, or None for a JWTError (not  *)
(* a JWT, a signature of another key, an expiry before the current time).  *)
JwtDecode(token) ==
    IF token.kind # "jwt" THEN {}
    ELSE IF token.key # SECRET_KEY THEN {}
    ELSE IF \E e \in token.claims.exp : e < now THEN {}
    ELSE {token.claims}

Unauthorized(detail) == [status |-> HTTP_401_UNAUTHORIZED, value |-> [detail |-> detail]]

(* A dependency that returns v to its caller; no status is set.            *)
Resolved(v) == [status |-> 0, value |-> v]

(* verify_token: the subject of the token, or the 401 it raises.           *)
VerifyToken(token) ==
    IF JwtDecode(token) = {} THEN Unauthorized("Could not validate credentials")
    ELSE LET payload == CHOOSE c \in JwtDecode(token) : TRUE
         IN  IF payload.sub = {} THEN Unauthorized("Could not validate credentials")
             ELSE Resolved([sub |-> CHOOSE x \in payload.sub : TRUE])

(* User.id == user_id, user_id being the subject string.  The comparison  *)
(* is made by the database, with the integer column on one side and a      *)
(* text on the other: the text is read as a number (white space, a sign,   *)
(* digits, a fraction, an exponent) and a text that is no number equals    *)
(* no id.  The engine is not part of the sources; the conversion is that   *)
(* of SQLite (sqlite3AtoF): a significand of 18 or 19 digits, scaled by a  *)
(* power of ten in extended precision and rounded to a double.             *)

(* sqlite3Isspace: space, \t, \n, \v, \f, \r.                              *)
SpaceChars == {" ", "\t", "\n", "", "\f", "\r"}

DigitChars == {Digit[d] : d \in 1..10}

(* The character at position i, or the empty string past the end.          *)
CharAt(str, i) == IF i \in 1..Len(str) THEN SubSeq(str, i, i) ELSE ""

(* The first position from i on whose character is not one of chars.       *)
ScanWhile(str, i, chars) ==
    CHOOSE j \in i..(Len(str) + 1) :
        /\ j <= Len(str) => CharAt(str, j) \notin chars
        /\ \A k \in i..(j - 1) : CharAt(str, k) \in chars

StripZeros(str) == SubSeq(str, ScanWhile(str, 1, {"0"}), Len(str))

DigitOf(ch) == CHOOSE d \in 0..9 : Digit[d + 1] = ch

(* The number a short string of decimal digits denotes.                    *)
RECURSIVE DecimalValue(_)
DecimalValue(str) ==
    IF Len(str) = 0 THEN 0
    ELSE 10 * DecimalValue(SubSeq(str, 1, Len(str) - 1)) + DigitOf(CharAt(str, Len(str)))

(* a <= b, for strings of decimal digits of one length.                    *)
DecimalLeq(a, b) ==
    \/ a = b
    \/ \E k \in 1..Len(a) : /\ DigitOf(CharAt(a, k)) < DigitOf(CharAt(b, k))
                            /\ SubSeq(a, 1, k - 1) = SubSeq(b, 1, k - 1)

(* The parts of a text read as a number, and whether all of it is one:    *)
(* white space up to a, a sign, the digits of the integer from b up to c,  *)
(* a point, the digits of the fraction from f up to g, and, after an "e",  *)
(* a sign and the digits of the exponent from k up to m (k = m = g when no *)
(* "e" is written), then white space.                                      *)
TextParts(str, a, b, c, f, g, k, m) ==
    [valid |-> /\ ScanWhile(str, m, SpaceChars) = Len(str) + 1
               /\ (c - b) + (g - f) > 0
               /\ k > g => m > k,
     negative |-> CharAt(str, a) = "-",
     int |-> SubSeq(str, b, c - 1),
     frac |-> SubSeq(str, f, g - 1),
     exp |-> SubSeq(str, k, m - 1),
     expNegative |-> k > g /\ CharAt(str, g + 1) = "-"]

ReadExponent(str, a, b, c, f, g) ==
    IF CharAt(str, g) \in {"e", "E"}
    THEN LET k == IF CharAt(str, g + 1) \in {"-", "+"} THEN g + 2 ELSE g + 1
         IN  TextParts(str, a, b, c, f, g, k, ScanWhile(str, k, DigitChars))
    ELSE TextParts(str, a, b, c, f, g, g, g)

ReadFraction(str, a, b, c) ==
    LET f == IF CharAt(str, c) = "." THEN c + 1 ELSE c
    IN  ReadExponent(str, a, b, c, f, ScanWhile(str, f, DigitChars))

ReadInteger(str, a) ==
    LET b == IF CharAt(str, a) \in {"-", "+"} THEN a + 1 ELSE a
    IN  ReadFraction(str, a, b, ScanWhile(str, b, DigitChars))

NumericText(str) == ReadInteger(str, ScanWhile(str, 1, SpaceChars))

(* (LARGEST_INT64 - 9) / 10: digits are taken into the significand while   *)
(* it is below this.                                                       *)
SignificandLimit == "922337203685477579"

(* The digits taken into the significand, of the digits sig of the number  *)
(* without its leading zeros, and the power of ten that the digits left    *)
(* out and the nfrac digits of the fraction add to the exponent.           *)
LeadingDigits(sig, nfrac) ==
    LET taken == Min(Len(sig),
                     IF /\ Len(sig) >= Len(SignificandLimit)
                        /\ DecimalLeq(SignificandLimit, SubSeq(sig, 1, Len(SignificandLimit)))
                     THEN Len(SignificandLimit)
                     ELSE Len(SignificandLimit) + 1)
    IN  [digits |-> SubSeq(sig, 1, taken), shift |-> Len(sig) - nfrac - taken]

Significand(num) ==
    LeadingDigits(StripZeros(StripZeros(num.int) \o num.frac), Len(num.frac))

(* The exponent written in the text.  Its digits are added to the         *)
(* exponent while it is below 10000 (e = e<10000 ? e*10 + digit : 10000):  *)
(* an exponent of up to five digits, leading zeros aside, is kept, and a   *)
(* longer one is taken for 10000.                                          *)
ExponentOf(num) ==
    LET v == IF Len(StripZeros(num.exp)) > 5 THEN 10000
             ELSE DecimalValue(StripZeros(num.exp))
    IN  IF num.expNegative THEN 0 - v ELSE v

RECURSIVE Zeros(_)
Zeros(k) == IF k = 0 THEN "" ELSE "0" \o Zeros(k - 1)

(* The base-8192 digits of a number, least significant first.              *)
RECURSIVE DigitsOfInt(_)
DigitsOfInt(n) == IF n = 0 THEN <<>> ELSE <<n % Base>> \o DigitsOfInt(n \div Base)

RECURSIVE DigitsOfDecimal(_)
DigitsOfDecimal(str) ==
    IF Len(str) = 0 THEN <<>>
    ELSE MulSmall(DigitsOfDecimal(SubSeq(str, 1, Len(str) - 1)), 10,
                  DigitOf(CharAt(str, Len(str))))

RECURSIVE TimesPow10(_, _)
TimesPow10(d, e) == IF e = 0 THEN d ELSE TimesPow10(MulSmall(d, 10, 0), e - 1)

RECURSIVE Add(_, _, _)
Add(a, b, carry) ==
    IF a = <<>> /\ b = <<>> THEN (IF carry = 0 THEN <<>> ELSE <<carry>>)
    ELSE LET x == (IF a = <<>> THEN 0 ELSE Head(a)) + (IF b = <<>> THEN 0 ELSE Head(b))
                    + carry
         IN  <<x % Base>> \o Add(IF a = <<>> THEN <<>> ELSE Tail(a),
                                 IF b = <<>> THEN <<>> ELSE Tail(b), x \div Base)

LessEq(a, b) ==
    LET n == IF Len(a) > Len(b) THEN Len(a) ELSE Len(b)
        at(d, i) == IF i \in DOMAIN d THEN d[i] ELSE 0
    IN  \/ \A i \in 1..n : at(a, i) = at(b, i)
        \/ \E k \in 1..n : /\ at(a, k) < at(b, k)
                           /\ \A i \in (k + 1)..n : at(a, i) = at(b, i)

(* Numbers are compared in units of 2^-65 (five base-8192 digits).         *)
GuardDigits == 5

(* The double that s / 10^e becomes, for 0 < e < 20, is the integer id,    *)
(* 1 <= id < 2^31.  The quotient is rounded to the 64-bit significand of   *)
(* the extended format and then to a double: the result is id when the     *)
(* quotient is within half a unit of the double plus half a unit of the    *)
(* extended format of id (the units below a power of two are halved).      *)
DoubleOfQuotientIs(s, e, id) ==
    LET top == Pow2(BitLen(DigitsOfInt(id)) - 1)
        unit(k) == TimesPow10(MulSmall(DigitsOfInt(top), k, 0), e)
        quot == [i \in 1..GuardDigits |-> 0] \o DigitsOfDecimal(s)
        goal == TimesPow10([i \in 1..GuardDigits |-> 0] \o DigitsOfInt(id), e)
    IN  /\ LessEq(quot, Add(goal, unit(4098), 0))
        /\ LessEq(goal, Add(quot, unit(IF id = top THEN 2049 ELSE 4098), 0))

(* The number of zeros at the end of a string of digits.                   *)
TrailingZeros(str) ==
    CHOOSE k \in 0..Len(str) :
        /\ \A i \in (Len(str) - k + 1)..Len(str) : CharAt(str, i) = "0"
        /\ k < Len(str) => CharAt(str, Len(str) - k) # "0"

(* digits / 10^e, less k zeros at the end of the digits, is the integer    *)
(* id.                                                                     *)
QuotientEqualsId(digits, e, k, id) ==
    IF e = k THEN SubSeq(digits, 1, Len(digits) - k) = IntStr(id)
    ELSE e - k < 20 /\ DoubleOfQuotientIs(SubSeq(digits, 1, Len(digits) - k), e - k, id)

(* digits * 10^e is the integer id.                                        *)
ScaledEqualsId(digits, e, id) ==
    /\ digits # ""
    /\ IF e >= 0 THEN e <= 10 /\ digits \o Zeros(e) = IntStr(id)
       ELSE QuotientEqualsId(digits, 0 - e, Min(TrailingZeros(digits), 0 - e), id)

SignificandEqualsId(sig, exp, id) == ScaledEqualsId(sig.digits, exp + sig.shift, id)

NumberEqualsId(num, id) ==
    /\ num.valid
    /\ ~num.negative
    /\ SignificandEqualsId(Significand(num), ExponentOf(num), id)

(* The text, read as a number, equals the integer id, 1 <= id < 2^31.      *)
TextEqualsId(str, id) == NumberEqualsId(NumericText(str), id)

(* The subjects of the tokens issued in SpecAuth (the claim "sub" is       *)
(* optional).                                                              *)
AuthSubjects ==
    {None, {"1"}, {"2"}, {"02"}, {" 2"}, {"+2"}, {"2.0"}, {"20e-1"}, {"\f2"},
     {"200000e-00005"}, {"2.0000000000000001"}, {"-2"}, {"2.5"}, {"2e"}, {"3"}, {"4"}, {"5"}}

(* TextEqualsId over these subjects and the ids of the pool, evaluated     *)
(* once.                                                                   *)
SubjectIds ==
    [sub \in UNION AuthSubjects |-> {i \in DOMAIN UserPool : TextEqualsId(sub, i)}]

(* TextEqualsId, looked up where it has been evaluated.                    *)
SubjectEqualsId(sub, id) ==
    IF sub \in DOMAIN SubjectIds /\ id \in DOMAIN UserPool
    THEN id \in SubjectIds[sub]
    ELSE TextEqualsId(sub, id)

(* The ids of the rows selected by User.id == user_id.                     *)
IdsOfSub(sub) == {i \in DOMAIN users : SubjectEqualsId(sub, i)}

(* get_current_user                                                        *)
GetCurrentUser(token) ==
    LET v == VerifyToken(token)
    IN  IF v.status # 0 THEN v
        ELSE IF \A i \in IdsOfSub(v.value.sub) : QueryUser(i) = {}
        THEN Unauthorized("User not found")
        ELSE Resolved(users[CHOOSE i \in IdsOfSub(v.value.sub) : QueryUser(i) # {}])

(* get_current_active_user without its is_active test.                     *)
GetCurrentActiveUser_NoTest(token) == GetCurrentUser(token)

(* get_current_active_user                                                 *)
GetCurrentActiveUser(token) ==
    LET u == GetCurrentUser(token)
    IN  IF u.status # 0 THEN u
        ELSE IF ~u.value.is_active
        THEN [status |-> HTTP_400_BAD_REQUEST, value |-> [detail |-> "Inactive user"]]
        ELSE u

(* require_teacher                                                         *)
RequireTeacherOutcome(token) ==
    LET u == GetCurrentActiveUser(token)
    IN  IF u.status # 0 THEN u
        ELSE IF ~u.value.is_teacher
        THEN [status |-> HTTP_403_FORBIDDEN,
              value |-> [detail |-> "Only teachers can perform this action"]]
        ELSE u

(* A token is issued and handed to a client.                               *)
IssueToken(data, expires_delta) ==
    /\ tokens' = tokens \cup {CreateAccessToken(data, expires_delta)}
    /\ UNCHANGED <<users, ledger, now, resp, inflight>>

(* A client holds a bearer string the server did not issue.                *)
ForeignToken(token) ==
    /\ JwtDecode(token) = {}
    /\ tokens' = tokens \cup {token}
    /\ UNCHANGED <<users, ledger, now, resp, inflight>>

(* A request on a route that depends on require_teacher.                   *)
RequireTeacher(token) ==
    /\ resp' = [op |-> "require_teacher",
                status |-> RequireTeacherOutcome(token).status,
                value |-> RequireTeacherOutcome(token).value]
    /\ UNCHANGED <<users, ledger, now, inflight, tokens>>

AuthDeltas == {None, {0}, {15}}
AuthTickMinutes == ACCESS_TOKEN_EXPIRE_MINUTES \div 2

InitAuth ==
    /\ users = UserTable({1, 2, 3, 4})
    /\ ledger = <<>>
    /\ now = 0
    /\ resp = NoResp
    /\ inflight = EmptyBag
    /\ tokens = {}

DoIssueToken ==
    \E s \in AuthSubjects, d \in AuthDeltas :
        IssueToken([sub |-> s], d) /\ Cardinality(tokens') <= MaxTokens

DoForeignToken ==
    \E t \in {Malformed, JwtEncode([sub |-> {"2"}, exp |-> {}], "another key")} :
        ForeignToken(t) /\ Cardinality(tokens') <= MaxTokens

AuthTick == now + AuthTickMinutes <= MaxAuthTicks * AuthTickMinutes /\ Tick(AuthTickMinutes)

DoRequireTeacher == \E t \in tokens : RequireTeacher(t)

NextAuth == DoIssueToken \/ DoForeignToken \/ AuthTick \/ DoRequireTeacher

SpecAuth == InitAuth /\ [][NextAuth]_vars

----------------------------------------------------------------------------
(* Claims on the ledger (Spec).                                            *)

(* Some row of user u and class c was checked in on the current day.       *)
HasRowToday(u, c) ==
    \E i \in 1..Len(ledger) :
        /\ ledger[i].user_id = u
        /\ ledger[i].class_name = c
        /\ ledger[i].check_in_time \div MinutesPerDay = now \div MinutesPerDay

(* ledger' is ledger with exactly one row added at the end.                *)
OneRowAdded ==
    /\ Len(ledger') = Len(ledger) + 1
    /\ SubSeq(ledger', 1, Len(ledger)) = ledger

(* A check-in is refused when its reads find a row of today.               *)
C1_Refused(u, c) ==
    (CheckInRead(u, c, "present", None) /\ u \in DOMAIN users /\ HasRowToday(u, c)) =>
        /\ resp'.status = 400
        /\ ledger' = ledger
        /\ inflight' = inflight

(* A check-in succeeds only when the ledger holds no row of today.         *)
C1_Succeeds(req) ==
    CheckInCommit(req) =>
        /\ ~HasRowToday(req.user_id, req.class_name)
        /\ resp'.status = 201
        /\ OneRowAdded
        /\ ledger'[Len(ledger')].user_id = req.user_id
        /\ ledger'[Len(ledger')].class_name = req.class_name
        /\ ledger'[Len(ledger')].marked_by = {}

(* C1: for an existing user u and class c, check_in(u, c) succeeds and     *)
(* adds exactly one row with marked_by = null if and only if the ledger    *)
(* holds no row for (u, c) checked in today, whoever created it; otherwise *)
(* it fails with 400 and the ledger is unchanged: a second check-in for    *)
(* the same user, class and day fails.                                     *)
C1_CheckInOncePerDay ==
    [][/\ \A u \in LedgerStudentIds, c \in LedgerClasses : C1_Refused(u, c)
       /\ \A req \in BagToSet(inflight) : C1_Succeeds(req)]_vars

(* C2: under any interleaving of concurrent check_in requests the ledger   *)
(* holds at most one self check-in row (marked_by = null) per user, class  *)
(* and calendar day.                                                       *)
C2_AtMostOneSelfCheckIn ==
    \A i \in 1..Len(ledger), j \in 1..Len(ledger) :
        ( /\ ledger[i].marked_by = {}
          /\ ledger[j].marked_by = {}
          /\ ledger[i].user_id = ledger[j].user_id
          /\ ledger[i].class_name = ledger[j].class_name
          /\ DateOf(ledger[i].check_in_time) = DateOf(ledger[j].check_in_time) )
        => i = j

IsTeacherId(t) == t \in DOMAIN users /\ users[t].is_teacher

C3_Step(t, u, c, s) ==
    (Mark(t, u, c, s, {"by teacher"}) /\ ~IsTeacherId(t)) =>
        /\ resp'.status = 403
        /\ ledger' = ledger

C3_MarkersAreTeachers ==
    \A i \in 1..Len(ledger) : \A m \in ledger[i].marked_by : IsTeacherId(m)

(* C3: mark by a teacher_id that is no user or no teacher fails with 403   *)
(* and leaves the ledger unchanged, also when the student is missing; so   *)
(* every row with a marker references a user with is_teacher = true.       *)
C3_NonTeacherForbidden ==
    /\ []C3_MarkersAreTeachers
    /\ [][resp'.op = "mark" =>
             \A t \in LedgerTeacherIds, u \in LedgerStudentIds, c \in MarkClasses,
                s \in MarkStatuses : C3_Step(t, u, c, s)]_vars

(* A mark was refused with 403 while the ledger holds a teacher's row and  *)
(* the store holds a non-teacher and lacks user 4.                         *)
C3_Witness ==
    /\ resp.op = "mark"
    /\ resp.status = 403
    /\ 4 \notin DOMAIN users
    /\ 1 \in DOMAIN users /\ ~users[1].is_teacher
    /\ \E i \in 1..Len(ledger) : ledger[i].marked_by = {2}

C4_Step(t, u, c, s) ==
    (Mark(t, u, c, s, {"by teacher"}) /\ IsTeacherId(t) /\ ~users[t].is_active) =>
        /\ resp'.status = 403
        /\ ledger' = ledger

(* C4: mark fails with 403 and creates no row when the teacher_id is a     *)
(* user with is_teacher = true and is_active = false.                      *)
C4_InactiveTeacherForbidden ==
    [][\A t \in LedgerTeacherIds, u \in LedgerStudentIds, c \in MarkClasses,
          s \in MarkStatuses : C4_Step(t, u, c, s)]_vars

C5_Step(t, u, c, s) ==
    (Mark(t, u, c, s, {"by teacher"}) /\ IsTeacherId(t) /\ u \in DOMAIN users) =>
        /\ resp'.status = 201
        /\ OneRowAdded
        /\ ledger'[Len(ledger')].user_id = u
        /\ ledger'[Len(ledger')].class_name = c
        /\ ledger'[Len(ledger')].status = s
        /\ ledger'[Len(ledger')].marked_by = {t}

(* Some teacher's row of user u and class c was stored on the current day. *)
MarkedToday(u, c) ==
    \E i \in 1..Len(ledger) :
        /\ ledger[i].user_id = u
        /\ ledger[i].class_name = c
        /\ ledger[i].marked_by # {}
        /\ ledger[i].check_in_time \div MinutesPerDay = now \div MinutesPerDay

C5_CheckInAfterMark(u, c) ==
    (CheckInRead(u, c, "present", None) /\ MarkedToday(u, c)) =>
        /\ resp'.status = 400
        /\ ledger' = ledger
        /\ inflight' = inflight

(* C5: mark by an existing teacher for an existing student always          *)
(* succeeds, whatever rows exist: it adds exactly one row with marked_by = *)
(* teacher_id and the given status and changes no existing row; a check-in *)
(* that starts after a mark of the same user, class and day is refused.    *)
C5_MarkAlwaysAdds ==
    [][/\ resp'.op = "mark" =>
            \A t \in LedgerTeacherIds, u \in LedgerStudentIds, c \in MarkClasses,
               s \in MarkStatuses : C5_Step(t, u, c, s)
       /\ resp'.op = "check_in" =>
            \A u \in LedgerStudentIds, c \in LedgerClasses : C5_CheckInAfterMark(u, c)]_vars

(* A teacher's mark was stored after a self check-in of the same user,     *)
(* class and day.                                                          *)
C5_Witness ==
    /\ resp.op = "mark"
    /\ resp.status = 201
    /\ Len(ledger) = 2
    /\ ledger[1].marked_by = {} /\ ledger[2].marked_by # {}
    /\ ledger[1].user_id = ledger[2].user_id
    /\ ledger[1].class_name = ledger[2].class_name
    /\ DateOf(ledger[1].check_in_time) = DateOf(ledger[2].check_in_time)

----------------------------------------------------------------------------
(* Claims on the listings (SpecList).                                      *)

(* The rows of class c checked in today, each with its owner's names.      *)
C6_Expected(c) ==
    LET m == SelectSeq(ledger, LAMBDA r : /\ r.class_name = c
                                          /\ r.check_in_time \div MinutesPerDay
                                               = now \div MinutesPerDay)
    IN  [k \in 1..Len(m) |->
            [id |-> m[k].id, user_id |-> m[k].user_id, class_name |-> m[k].class_name,
             status |-> m[k].status, check_in_time |-> m[k].check_in_time,
             check_out_time |-> m[k].check_out_time, notes |-> m[k].notes,
             marked_by |-> m[k].marked_by,
             username |-> users[m[k].user_id].username,
             full_name |-> users[m[k].user_id].full_name]]

C6_Step(c) ==
    GetClassAttendanceToday(c) => resp'.value = [items |-> C6_Expected(c)]

(* C6: list_for_class_today(class_name) returns a sequence with exactly    *)
(* one entry for each row of that class checked in today, each with the    *)
(* row's fields and the owner's username and full_name; the empty sequence *)
(* when no row matches, never an error and never a null result.            *)
C6_ClassTodayReturnsList ==
    [][\A c \in ListClasses : C6_Step(c)]_vars

(* The rows that pass the class filter c and the date filter d, where an   *)
(* empty set is no filter, less the first skip, cut to limit.              *)
MatchingPage(skip, limit, c, d) ==
    LET m == SelectSeq(ledger, LAMBDA r :
                 /\ c # {} => r.class_name \in c
                 /\ d # {} => (r.check_in_time \div MinutesPerDay) \in d)
    IN  [k \in 1..Min(limit, IF Len(m) > skip THEN Len(m) - skip ELSE 0) |-> m[skip + k]]

C9_Step(skip, limit, c, d) ==
    GetAllAttendance(skip, limit, c, d) =>
        /\ resp'.value = [items |-> MatchingPage(skip, limit, c, d)]
        /\ ledger' = ledger

(* C9 as claimed: list(class_name?, date_filter?, skip, limit) returns     *)
(* exactly the rows that match every supplied filter (class_name equality  *)
(* for any supplied class_name string, check-in day equal to date_filter   *)
(* whatever the time of day), less the first skip and cut to limit, and    *)
(* leaves the ledger unchanged.                                            *)
C9_ListMatchesSuppliedFilters ==
    [][resp'.op = "list" =>
          \A skip \in ListSkips, limit \in ListLimits, c \in ListClassFilters,
             d \in ListDateFilters : C9_Step(skip, limit, c, d)]_vars

C9_AmendedStep(skip, limit, c, d) ==
    GetAllAttendance(skip, limit, c, d) =>
        /\ resp'.value = [items |-> MatchingPage(skip, limit, c \ {""}, d)]
        /\ ledger' = ledger

(* C9 as amended: list returns exactly the rows that match every filter in *)
(* effect, a supplied class_name that is the empty string being no filter  *)
(* (class_name equality for a non-empty class_name, check-in day equal to  *)
(* date_filter whatever the time of day), less the first skip and cut to   *)
(* limit, and leaves the ledger unchanged.                                 *)
C9_ListMatchesFiltersInEffect ==
    [][resp'.op = "list" =>
          \A skip \in ListSkips, limit \in ListLimits, c \in ListClassFilters,
             d \in ListDateFilters : C9_AmendedStep(skip, limit, c, d)]_vars

(* A listing returned only the second of two rows, a row checked in at     *)
(* noon, and left out a row of the same day or class.                      *)
C9_Witness ==
    /\ resp.op = "list"
    /\ Len(ledger) = 2
    /\ resp.value.items = <<ledger[2]>>
    /\ ledger[2].check_in_time % MinutesPerDay # 0
    /\ ledger[1].check_in_time % MinutesPerDay = 0

----------------------------------------------------------------------------
(* Claims on the statistics (SpecStats).                                   *)

(* The number of rows of the ledger that satisfy P.                        *)
CountRows(P(_)) == Cardinality({i \in 1..Len(ledger) : P(ledger[i])})

(* h hundredths is a hundredth nearest to num / den * 100.                 *)
NearestHundredth(h, num, den) ==
    LET diff == h * den - 10000 * num
    IN  2 * (IF diff < 0 THEN -diff ELSE diff) <= den

C7_Response ==
    (resp.op = "stats_user" /\ resp.status = 200) =>
        LET u == resp.value.user_id
            v == resp.value
            n(st) == CountRows(LAMBDA r : r.user_id = u /\ r.status = st)
            total == CountRows(LAMBDA r : r.user_id = u)
        IN  /\ u \in DOMAIN users
            /\ v.present = n("present")
            /\ v.absent = n("absent")
            /\ v.late = n("late")
            /\ v.excused = n("excused")
            /\ v.total_records = total
            /\ v.total_records = v.present + v.absent + v.late + v.excused
            /\ IF total = 0
               THEN v.attendance_rate = 0
               ELSE \E h \in {(10000 * (v.present + v.late)) \div total,
                                ((10000 * (v.present + v.late)) \div total) + 1} :
                        /\ NearestHundredth(h, v.present + v.late, total)
                        /\ v.attendance_rate = PercentStr(h)

C7_Example ==
    /\ AttendanceRate(3, 1, 5) = 8000
    /\ PercentStr(AttendanceRate(3, 1, 5)) = "80.0%"
    /\ AttendanceRate(0, 0, 0) = 0
    /\ \A total \in (1..40) \cup {160} : \A n \in 0..total :
           NearestHundredth(AttendanceRate(n, 0, total), n, total)

C7_Step(u) ==
    GetUserAttendanceStats(u) =>
        IF u \in DOMAIN users
        THEN resp'.status = 200 /\ resp'.value.user_id = u
        ELSE resp'.status = 404

(* C7: for an existing user stats_for_user reports per-status counts equal *)
(* to the user's rows with each status over all classes and days, a total  *)
(* equal to their sum, and a rate of (present + late) / total * 100        *)
(* rounded to 2 decimals (3 present, 1 late, 1 absent: 80.0); total 0 and  *)
(* rate 0 without rows; 404 for a user id that does not exist.             *)
C7_UserStats ==
    /\ [](C7_Response /\ C7_Example)
    /\ [][resp'.op = "stats_user" => \A u \in StatsUserIds : C7_Step(u)]_vars

(* The statistics of a user with two present or late rows out of three,    *)
(* in two classes and on two days.                                         *)
C7_Witness ==
    /\ resp.op = "stats_user"
    /\ resp.status = 200
    /\ resp.value.total_records = 3
    /\ resp.value.attendance_rate = "66.67%"
    /\ resp.value.late = 1 /\ resp.value.present = 1
    /\ \E i, j \in 1..Len(ledger) :
          /\ ledger[i].user_id = resp.value.user_id
          /\ ledger[j].user_id = resp.value.user_id
          /\ ledger[i].class_name # ledger[j].class_name
          /\ DateOf(ledger[i].check_in_time) # DateOf(ledger[j].check_in_time)

(* C8: stats_for_class reports unique_students equal to the number of      *)
(* distinct user ids among the class's rows, total_records equal to the    *)
(* number of its rows over all days, per-status counts that sum to the     *)
(* total, and zeros (no error) for a class without rows.                   *)
C8_ClassStats ==
    resp.op = "stats_class" =>
        LET c == resp.value.class_name
            v == resp.value
            n(st) == CountRows(LAMBDA r : r.class_name = c /\ r.status = st)
            total == CountRows(LAMBDA r : r.class_name = c)
        IN  /\ resp.status = 200
            /\ v.unique_students =
                   Cardinality({ledger[i].user_id : i \in {k \in 1..Len(ledger) :
                                                           ledger[k].class_name = c}})
            /\ v.total_records = total
            /\ v.present = n("present") /\ v.absent = n("absent")
            /\ v.late = n("late") /\ v.excused = n("excused")
            /\ v.present + v.absent + v.late + v.excused = v.total_records

(* The statistics of a class with three rows of two students.              *)
C8_Witness ==
    /\ resp.op = "stats_class"
    /\ resp.value.total_records = 3
    /\ resp.value.unique_students = 2
    /\ ledger[1].user_id # ledger[2].user_id
    /\ ledger[3].user_id = ledger[1].user_id

----------------------------------------------------------------------------
(* Claims on the guards (SpecAuth).                                        *)

(* The token was signed by this server, is not past its expiry and names   *)
(* a subject.                                                              *)
C10_Verifies(t) ==
    /\ t.kind = "jwt"
    /\ t.key = "SECRET_KEY"
    /\ \A e \in t.claims.exp : now <= e
    /\ t.claims.sub # {}

(* The users the subject of a verified token references: the rows whose   *)
(* id equals the subject, the subject being a text that the database       *)
(* reads as a number.                                                      *)
C10_Subject(t) == {i \in DOMAIN users : \E sub \in t.claims.sub : SubjectEqualsId(sub, i)}

(* The subject that authenticate embeds in a token, str(user.id),          *)
(* references that user and no other.                                      *)
C10_IssuedSubject ==
    \A i \in DOMAIN users :
        C10_Subject([claims |-> [sub |-> {IntStr(i)}]]) = {i}

C10_Step(t) ==
    RequireTeacher(t) =>
        IF ~C10_Verifies(t) \/ C10_Subject(t) = {} THEN resp'.status = 401
        ELSE LET u == users[CHOOSE i \in C10_Subject(t) : TRUE]
             IN  IF ~u.is_active THEN resp'.status = 400
                 ELSE IF ~u.is_teacher THEN resp'.status = 403
                 ELSE resp'.status = 0 /\ resp'.value = u

C10_DefaultExpiry ==
    \A s \in AuthSubjects :
        IssueToken([sub |-> s], None) =>
            \E t \in tokens' : /\ t.kind = "jwt"
                               /\ t.claims = [sub |-> s, exp |-> {now + 30}]

(* C10: a request passes require_teacher only if its token verifies, its   *)
(* subject is an existing user, and that user is active and a teacher, the *)
(* checks made in that order: 401 for a bad, expired or subject-less token *)
(* or a subject with no user, 400 for an inactive user (teacher or not),   *)
(* 403 only for an active non-teacher; a token issued with the default     *)
(* TTL of 30 minutes stops resolving once its expiry has passed.           *)
C10_GuardOrder ==
    [][(\A t \in tokens : C10_Step(t)) /\ C10_DefaultExpiry /\ C10_IssuedSubject]_vars

(* The token of the active teacher, issued at 0 with the default TTL, was  *)
(* refused with 401 after its expiry.                                      *)
C10_Witness ==
    /\ resp.op = "require_teacher"
    /\ resp.status = 401
    /\ tokens = {[kind |-> "jwt", key |-> "SECRET_KEY",
                  claims |-> [sub |-> {"2"}, exp |-> {30}]]}
    /\ now > 30

====
